---- MODULE Spec2Model ----
(***************************************************************************)
(* Road network store (RoadNetwork), budget-limited search                 *)
(* (DijkstraSearch) and snapshot import/export of                          *)
(* src/v3/ROAD_NETWORK_CODE.js, with the test-road overlay sketched in      *)
(* src/v3/TEST_ROAD_FEATURE.md.                                            *)
(*                                                                         *)
(* Encoding of JavaScript values.  A number is an integer; Infinity, NaN   *)
(* and undefined are the sentinels below, and every arithmetic operator or *)
(* comparison goes through Js* operators that give them their JavaScript   *)
(* meaning.  A node id 'n_k' is the tuple <<"n", k>>; an edge key          *)
(* from + '-' + to is the pair <<from, to>>.  Times are kept in units of   *)
(* 1/8333 s so that length / 83.33 * 60 is an exact integer.               *)
(***************************************************************************)
EXTENDS Integers, Sequences, FiniteSets, TLC

\* ------------------------------------------------------------------ bounds
\* addNode is cut off once nextNodeId exceeds MaxNodes
MaxNodes == 2
\* addEdge is cut off once the stored edge keys join more than MaxRoads
\* unordered pairs of endpoints (a pair has the keys a-b and b-a)
MaxRoads == 1

\* ------------------------------------------------------- JavaScript values
Infinity == 1000000000
NaN == -1
Undefined == -2

IsNumber(v) == v # NaN /\ v # Undefined

\* a + b
JsAdd(a, b) ==
    IF ~IsNumber(a) \/ ~IsNumber(b) THEN NaN
    ELSE IF a = Infinity \/ b = Infinity THEN Infinity
    ELSE a + b

\* a < b, a > b, a <= b: false as soon as one side is NaN or undefined
JsLt(a, b) == IsNumber(a) /\ IsNumber(b) /\ a < b
JsGt(a, b) == IsNumber(a) /\ IsNumber(b) /\ a > b
JsLe(a, b) == IsNumber(a) /\ IsNumber(b) /\ a <= b

\* the truthiness of a number: 0, NaN and undefined are falsy
Truthy(v) == v # 0 /\ v # NaN /\ v # Undefined

\* obj[name] of a JavaScript object: undefined when it has no such property
PropertyOf(obj, name) == IF name \in DOMAIN obj THEN obj[name] ELSE Undefined

\* --------------------------------------------------------------- constants
\* units of time per second, and length -> time: length / 83.33 * 60
TimeUnit == 8333
SecondsPerMinuteScaled == 6000

RoadEdgeTime(length) == length * SecondsPerMinuteScaled

\* a budget given in seconds, in time units
Seconds(s) == IF s = Infinity THEN Infinity ELSE s * TimeUnit

\* ------------------------------------------------------------------ inputs
\* 'n_' + k
NodeId(k) == <<"n", k>>
\* parseInt(id.split('_')[1])
IdNumber(id) == id[2]

Ids == {NodeId(k) : k \in 1..MaxNodes}
\* The k-th node created is placed at longitude Place(k), in micro-degrees, on
\* the equator: 999 micro-degrees are 111 m, an 80 s walk.
Place(k) == (k - 1) * 999
\* edge lengths in metres: 100 m are a 72 s walk, 200 m a 144 s walk
Lengths == {100}
OverlayLengths == {100, 200}
\* budgets in seconds
Budgets == {0, 100, 150, Infinity}

\* ------------------------------------------------------------------- state
VARIABLES
    nodes,       \* RoadNetwork.nodes: id -> [lng, lat, isBoundary, connections]
    edges,       \* RoadNetwork.edges: <<from, to>> -> [from, to, length, time]
    adjList,     \* RoadNetwork.adjList: id -> sequence of neighbour ids (insertion order)
    nextNodeId,  \* RoadNetwork.nextNodeId
    testRoads,   \* TestRoadManager.testRoads: id -> TestRoad
    nextId,      \* TestRoadManager.nextId
    last,        \* the last call: [op, args, err, res]
    lastNodeId,  \* history: the number of the id addNode returned last, 0 if none
    returnedRoadIds  \* history: the ids addTestRoad has returned

store == <<nodes, edges, adjList, nextNodeId>>
overlay == <<testRoads, nextId>>
history == <<lastNodeId, returnedRoadIds>>
vars == <<nodes, edges, adjList, nextNodeId, testRoads, nextId, last,
          lastNodeId, returnedRoadIds>>

Empty == <<>>

\* a Map without key k
MapDelete(m, k) == [x \in DOMAIN m \ {k} |-> m[x]]
\* Map.set(k, v)
MapSet(m, k, v) == [x \in DOMAIN m \cup {k} |-> IF x = k THEN v ELSE m[x]]

Range(s) == {s[i] : i \in DOMAIN s}
\* Set.add on an insertion-ordered Set
SeqAdd(s, x) == IF x \in Range(s) THEN s ELSE Append(s, x)
\* Set.delete on an insertion-ordered Set
SeqDelete(s, x) == SelectSeq(s, LAMBDA y : y # x)

\* new RoadNode(id, lng, lat)
RoadNode(lng, lat) ==
    [lng |-> lng, lat |-> lat, isBoundary |-> FALSE, connections |-> {}]

\* new RoadEdge(from, to, length)
RoadEdge(from, to, length) ==
    [from |-> from, to |-> to, length |-> length, time |-> RoadEdgeTime(length)]

NoResult == [distances |-> Empty, previous |-> Empty, reachable |-> {}]

Call(op, args, err, res) == [op |-> op, args |-> args, err |-> err, res |-> res]

Init ==
    /\ nodes = Empty
    /\ edges = Empty
    /\ adjList = Empty
    /\ nextNodeId = 1
    /\ testRoads = Empty
    /\ nextId = 1
    /\ last = Call("new", <<>>, "none", NoResult)
    /\ lastNodeId = 0
    /\ returnedRoadIds = {}

\* ----------------------------------------------------------------- addNode
AddNode(lng, lat) ==
    /\ nextNodeId <= MaxNodes
    /\ LET id == NodeId(nextNodeId) IN
        /\ nextNodeId' = nextNodeId + 1
        /\ nodes' = MapSet(nodes, id, RoadNode(lng, lat))
        /\ adjList' = MapSet(adjList, id, <<>>)
        /\ last' = Call("addNode", <<id>>, "none", NoResult)
        /\ lastNodeId' = nextNodeId
    /\ UNCHANGED <<edges, overlay, returnedRoadIds>>

\* -------------------------------------------------------------- removeEdge
\* a removal that knows only the key from-to and the side of fromId
RemoveEdgeOneWay(s, fromId, toId) ==
    [nodes |-> IF fromId \in DOMAIN s.nodes
               THEN [s.nodes EXCEPT ![fromId].connections = @ \ {toId}]
               ELSE s.nodes,
     edges |-> MapDelete(s.edges, <<fromId, toId>>),
     adjList |-> IF fromId \in DOMAIN s.adjList
                 THEN [s.adjList EXCEPT ![fromId] = SeqDelete(@, toId)]
                 ELSE s.adjList]

\* the store after removeEdge(fromId, toId)
RemoveEdgeOp(s, fromId, toId) ==
    LET e1 == MapDelete(s.edges, <<fromId, toId>>)
        e2 == MapDelete(e1, <<toId, fromId>>)
        a1 == IF fromId \in DOMAIN s.adjList
              THEN [s.adjList EXCEPT ![fromId] = SeqDelete(@, toId)]
              ELSE s.adjList
        a2 == IF toId \in DOMAIN a1
              THEN [a1 EXCEPT ![toId] = SeqDelete(@, fromId)]
              ELSE a1
        n1 == IF fromId \in DOMAIN s.nodes
              THEN [s.nodes EXCEPT ![fromId].connections = @ \ {toId}]
              ELSE s.nodes
        n2 == IF toId \in DOMAIN n1
              THEN [n1 EXCEPT ![toId].connections = @ \ {fromId}]
              ELSE n1
    IN [nodes |-> n2, edges |-> e2, adjList |-> a2]

StoreRec == [nodes |-> nodes, edges |-> edges, adjList |-> adjList]

RemoveEdge(fromId, toId) ==
    /\ LET s == RemoveEdgeOp(StoreRec, fromId, toId) IN
        /\ nodes' = s.nodes
        /\ edges' = s.edges
        /\ adjList' = s.adjList
    /\ last' = Call("removeEdge", <<fromId, toId>>, "none", NoResult)
    /\ UNCHANGED <<nextNodeId, overlay, history>>

\* -------------------------------------------------------------- removeNode
\* node.connections.forEach(neighborId => this.removeEdge(id, neighborId))
RECURSIVE RemoveEdges(_, _, _)
RemoveEdges(s, id, todo) ==
    IF todo = {} THEN s
    ELSE LET n == CHOOSE x \in todo : TRUE
         IN RemoveEdges(RemoveEdgeOp(s, id, n), id, todo \ {n})

RemoveNodeOp(s, id) ==
    IF id \notin DOMAIN s.nodes THEN s
    ELSE LET t == RemoveEdges(s, id, s.nodes[id].connections)
         IN [nodes |-> MapDelete(t.nodes, id),
             edges |-> t.edges,
             adjList |-> MapDelete(t.adjList, id)]

RemoveNode(id) ==
    /\ LET s == RemoveNodeOp(StoreRec, id) IN
        /\ nodes' = s.nodes
        /\ edges' = s.edges
        /\ adjList' = s.adjList
    /\ last' = Call("removeNode", <<id>>, "none", NoResult)
    /\ UNCHANGED <<nextNodeId, overlay, history>>

\* ----------------------------------------------------------------- addEdge
\* The statements run in order; reading .connections of a missing node or
\* calling .add on a missing adjacency set throws a TypeError and leaves what
\* the earlier statements did.
AddEdgeOp(s, fromId, toId, length) ==
    LET e1 == MapSet(s.edges, <<fromId, toId>>, RoadEdge(fromId, toId, length))
        s1 == [nodes |-> s.nodes, edges |-> e1, adjList |-> s.adjList, err |-> "none"]
    IN
    IF fromId \notin DOMAIN s.nodes THEN [s1 EXCEPT !.err = "TypeError"]
    ELSE LET n1 == [s.nodes EXCEPT ![fromId].connections = @ \cup {toId}] IN
    IF toId \notin DOMAIN n1 THEN [s1 EXCEPT !.nodes = n1, !.err = "TypeError"]
    ELSE LET n2 == [n1 EXCEPT ![toId].connections = @ \cup {fromId}] IN
    IF fromId \notin DOMAIN s.adjList THEN [s1 EXCEPT !.nodes = n2, !.err = "TypeError"]
    ELSE LET a1 == [s.adjList EXCEPT ![fromId] = SeqAdd(@, toId)] IN
    IF toId \notin DOMAIN a1
    THEN [s1 EXCEPT !.nodes = n2, !.adjList = a1, !.err = "TypeError"]
    ELSE [s1 EXCEPT !.nodes = n2, !.adjList = [a1 EXCEPT ![toId] = SeqAdd(@, fromId)]]

\* the unordered endpoint pairs of a set of edge keys
Roads(keys) == {{k[1], k[2]} : k \in keys}

AddEdge(fromId, toId, length) ==
    /\ Cardinality(Roads(DOMAIN edges \cup {<<fromId, toId>>})) <= MaxRoads
    /\ LET s == AddEdgeOp(StoreRec, fromId, toId, length) IN
        /\ nodes' = s.nodes
        /\ edges' = s.edges
        /\ adjList' = s.adjList
        /\ last' = Call("addEdge", <<fromId, toId, length>>, s.err, NoResult)
    /\ UNCHANGED <<nextNodeId, overlay, history>>

\* ------------------------------------------------------------ exportToJSON
\* The ids of a set in ascending number: the order of the nodes Map, whose
\* entries addNode and the snapshots below insert in ascending order.
RECURSIVE Ascending(_)
Ascending(S) ==
    IF S = {} THEN <<>>
    ELSE LET m == CHOOSE x \in S : \A y \in S : IdNumber(x) <= IdNumber(y)
         IN <<m>> \o Ascending(S \ {m})

\* JSON.stringify of a RoadNode: the Set connections is written as {}
NodeToJSON(ns, id) ==
    [id |-> id, lng |-> ns[id].lng, lat |-> ns[id].lat,
     connections |-> [kind |-> "object"], isBoundary |-> ns[id].isBoundary]

\* the orders in which the entries of the edges Map may stand: the order of
\* their insertion, which the model does not keep
KeyOrders(keys) ==
    {o \in [1..Cardinality(keys) -> keys] : \A i, j \in DOMAIN o : o[i] = o[j] => i = j}

\* exportToJSON(), the edges listed in the order keyOrder
ExportToJSON(ns, es, keyOrder) ==
    [nodes |-> [i \in DOMAIN Ascending(DOMAIN ns) |->
                   NodeToJSON(ns, Ascending(DOMAIN ns)[i])],
     edges |-> [i \in DOMAIN keyOrder |-> es[keyOrder[i]]]]

\* ---------------------------------------------------------- importFromJSON
NonNumeric == -3

\* new Set(node.connections || []): a plain object is not iterable
ConnectionsThrow(node) ==
    "connections" \in DOMAIN node /\ node.connections.kind = "object"
ConnectionsOf(node) ==
    IF "connections" \in DOMAIN node THEN node.connections.ids ELSE {}

\* Math.max(a, b)
MathMax(a, b) == IF ~IsNumber(a) \/ ~IsNumber(b) THEN NaN ELSE IF a >= b THEN a ELSE b

\* data.nodes.forEach(...): st = [nodes, edges, adjList, nextNodeId, err]
RECURSIVE ImportNodes(_, _)
ImportNodes(st, list) ==
    IF list = <<>> THEN st
    ELSE LET node == Head(list) IN
    IF ConnectionsThrow(node) THEN [st EXCEPT !.err = "TypeError"]
    ELSE LET newNode == [lng |-> PropertyOf(node, "lng"),
                         lat |-> PropertyOf(node, "lat"),
                         isBoundary |-> IF "isBoundary" \in DOMAIN node
                                        THEN node.isBoundary ELSE FALSE,
                         connections |-> ConnectionsOf(node)]
         IN ImportNodes(
              [st EXCEPT !.nodes = MapSet(@, node.id, newNode),
                         !.adjList = MapSet(@, node.id, <<>>),
                         !.nextNodeId = MathMax(@, IdNumber(node.id) + 1)],
              Tail(list))

\* data.edges.forEach(...)
RECURSIVE ImportEdges(_, _)
ImportEdges(st, list) ==
    IF list = <<>> THEN st
    ELSE LET edge == Head(list)
             s1 == [st EXCEPT !.edges = MapSet(@, <<edge.from, edge.to>>, edge)]
         IN
    IF edge.from \notin DOMAIN s1.adjList THEN [s1 EXCEPT !.err = "TypeError"]
    ELSE LET s2 == [s1 EXCEPT !.adjList[edge.from] = SeqAdd(@, edge.to)] IN
    IF edge.to \notin DOMAIN s2.adjList THEN [s2 EXCEPT !.err = "TypeError"]
    ELSE ImportEdges([s2 EXCEPT !.adjList[edge.to] = SeqAdd(@, edge.from)], Tail(list))

\* importFromJSON(jsonStr) for a text that parses to data
ImportOp(data) ==
    LET cleared == [nodes |-> Empty, edges |-> Empty, adjList |-> Empty,
                    nextNodeId |-> 1, err |-> "none"]
    IN
    IF "nodes" \notin DOMAIN data THEN [cleared EXCEPT !.err = "TypeError"]
    ELSE LET s1 == ImportNodes(cleared, data.nodes) IN
    IF s1.err # "none" THEN s1
    ELSE IF "edges" \notin DOMAIN data THEN [s1 EXCEPT !.err = "TypeError"]
    ELSE ImportEdges(s1, data.edges)

ImportFromJSON(name, data) ==
    /\ LET s == ImportOp(data) IN
        /\ nodes' = s.nodes
        /\ edges' = s.edges
        /\ adjList' = s.adjList
        /\ nextNodeId' = s.nextNodeId
        /\ last' = Call("importFromJSON", <<name>>, s.err, NoResult)
    /\ UNCHANGED <<overlay, history>>

\* snapshots written by hand
JsonNode(k, lng, boundary, conn) ==
    [id |-> NodeId(k), lng |-> lng, lat |-> 0, isBoundary |-> boundary,
     connections |-> [kind |-> "array", ids |-> conn]]
JsonEdge(a, b, length) == RoadEdge(NodeId(a), NodeId(b), length)

Snapshots ==
    [wellFormed |->
        [nodes |-> <<JsonNode(1, 0, TRUE, {NodeId(2)}), JsonNode(2, 999, FALSE, {NodeId(1)})>>,
         edges |-> <<JsonEdge(1, 2, 100)>>],
     danglingEdge |->
        [nodes |-> <<JsonNode(1, 0, FALSE, {})>>,
         edges |-> <<JsonEdge(1, 2, 100)>>],
     missingEdges |->
        [nodes |-> <<JsonNode(1, 0, FALSE, {})>>],
     nonNumericCoordinate |->
        [nodes |-> <<JsonNode(1, NonNumeric, FALSE, {})>>,
         edges |-> <<>>],
     noConnections |->
        [nodes |-> <<[id |-> NodeId(1), lng |-> 0, lat |-> 0],
                     [id |-> NodeId(2), lng |-> 999, lat |-> 0]>>,
         edges |-> <<JsonEdge(2, 1, 200)>>],
     staleConnections |->
        [nodes |-> <<JsonNode(1, 0, FALSE, {NodeId(2)}), JsonNode(2, 999, FALSE, {NodeId(1)})>>,
         edges |-> <<>>]]

\* import of a snapshot written by hand
ImportSnapshot == \E name \in DOMAIN Snapshots : ImportFromJSON(name, Snapshots[name])

\* importFromJSON(exportToJSON()) on the same store
RoundTrip ==
    \E o \in KeyOrders(DOMAIN edges) :
        ImportFromJSON("exported", ExportToJSON(nodes, edges, o))

\* ------------------------------------------------------------ PriorityQueue
\* enqueue: push, then a stable sort by priority; the items were sorted, so the
\* new item lands behind every item whose priority is not greater
RECURSIVE Enqueue(_, _)
Enqueue(items, item) ==
    IF items = <<>> THEN <<item>>
    ELSE IF item.priority - Head(items).priority < 0
         THEN <<item>> \o items
         ELSE <<Head(items)>> \o Enqueue(Tail(items), item)

\* const { node: currentNodeId, dist: currentDist } = pq.dequeue()
DequeuedNode(item) == PropertyOf(item, "node")
DequeuedDist(item) == PropertyOf(item, "dist")

\* ------------------------------------------------------------ DijkstraSearch
\* Map.get: undefined for a missing key
DistGet(d, n) == IF n \in DOMAIN d THEN d[n] ELSE Undefined

HasEdge(es, k) == k \in DOMAIN es
\* findEdge(fromId, toId): edges.get(from-to) || edges.get(to-from)
FindEdge(es, fromId, toId) ==
    IF HasEdge(es, <<fromId, toId>>) THEN es[<<fromId, toId>>]
    ELSE IF HasEdge(es, <<toId, fromId>>) THEN es[<<toId, fromId>>]
    ELSE [time |-> Undefined, missing |-> TRUE]

\* a relaxation that adds the edge's time to the distance recorded for the
\* current node
RelaxFromDistances(es, st, current, currentDist, neighborId) ==
    IF neighborId \in st.visited THEN st
    ELSE LET edge == FindEdge(es, current, neighborId) IN
    IF "missing" \in DOMAIN edge THEN st
    ELSE LET newDist == JsAdd(DistGet(st.distances, current), edge.time) IN
    IF JsLt(newDist, DistGet(st.distances, neighborId))
    THEN [st EXCEPT !.distances = MapSet(@, neighborId, newDist),
                    !.previous = MapSet(@, neighborId, current),
                    !.items = Enqueue(@, [node |-> neighborId, priority |-> newDist])]
    ELSE st

\* the body of neighbors.forEach for one neighbour; st = [distances, previous,
\* visited, items]
Relax(es, st, current, currentDist, neighborId) ==
    IF neighborId \in st.visited THEN st
    ELSE LET edge == FindEdge(es, current, neighborId) IN
    IF "missing" \in DOMAIN edge THEN st
    ELSE LET newDist == JsAdd(currentDist, edge.time) IN
    IF JsLt(newDist, DistGet(st.distances, neighborId))
    THEN [st EXCEPT !.distances = MapSet(@, neighborId, newDist),
                    !.previous = MapSet(@, neighborId, current),
                    !.items = Enqueue(@, [node |-> neighborId, priority |-> newDist])]
    ELSE st

RECURSIVE RelaxAll(_, _, _, _, _)
RelaxAll(es, st, current, currentDist, neighbors) ==
    IF neighbors = <<>> THEN st
    ELSE RelaxAll(es, Relax(es, st, current, currentDist, Head(neighbors)),
                  current, currentDist, Tail(neighbors))

\* the record of one pass of the loop that went past visited.add: the entry
\* that was extracted, and the neighbours whose distance or predecessor the
\* pass has set (st after the pass, before at visited.add)
Finalized(st, item, before) ==
    [st EXCEPT !.finalized =
        Append(@, [node |-> item.node, priority |-> item.priority,
                   lowered |->
                      {n \in DOMAIN st.distances :
                          \/ st.distances[n] # DistGet(before.distances, n)
                          \/ PropertyOf(st.previous, n)
                                # PropertyOf(before.previous, n)}])]

\* while (!pq.isEmpty()) { ... }
RECURSIVE SearchLoop(_, _, _, _)
SearchLoop(es, adj, st, maxTime) ==
    IF st.items = <<>> THEN st
    ELSE LET item == Head(st.items)
             current == DequeuedNode(item)
             currentDist == DequeuedDist(item)
             rest == [st EXCEPT !.items = Tail(@)]
         IN
         IF current \in st.visited THEN SearchLoop(es, adj, rest, maxTime)
         ELSE LET seen == [rest EXCEPT !.visited = @ \cup {current}] IN
         IF JsGt(currentDist, maxTime)
         THEN SearchLoop(es, adj, Finalized(seen, item, seen), maxTime)
         ELSE LET neighbors == IF current \in DOMAIN adj THEN adj[current] ELSE <<>>
              IN SearchLoop(es, adj,
                            Finalized(RelaxAll(es, seen, current, currentDist,
                                               neighbors), item, seen),
                            maxTime)

\* the comparison turned round: dist > maxTimeSeconds && dist
KeepReachableInverted(dist, maxTime) == JsGt(dist, maxTime) /\ Truthy(dist)

\* .filter(([nodeId, dist]) => dist <= maxTimeSeconds && dist)
KeepReachable(dist, maxTime) == JsLe(dist, maxTime) /\ Truthy(dist)

\* search(startNodeId, maxTimeSeconds), maxTime in time units
SearchOp(ns, es, adj, startNodeId, maxTime) ==
    LET d0 == [n \in DOMAIN ns \cup {startNodeId} |->
                  IF n = startNodeId THEN 0 ELSE Infinity]
        st0 == [distances |-> d0, previous |-> Empty, visited |-> {},
                finalized |-> <<>>,
                items |-> Enqueue(<<>>, [node |-> startNodeId, priority |-> 0])]
        st == SearchLoop(es, adj, st0, maxTime)
    IN [distances |-> st.distances,
        previous |-> st.previous,
        finalized |-> st.finalized,
        reachable |-> {[nodeId |-> n, distance |-> st.distances[n]] :
                          n \in {m \in DOMAIN st.distances :
                                     KeepReachable(st.distances[m], maxTime)}}]

\* a search that leaves a mark on the node it started from
SearchMarking(startNodeId, budget) ==
    /\ last' = Call("search", <<startNodeId, budget>>, "none",
                    SearchOp(nodes, edges, adjList, startNodeId, Seconds(budget)))
    /\ nodes' = [n \in DOMAIN nodes |->
                    IF n = startNodeId THEN [nodes[n] EXCEPT !.isBoundary = TRUE]
                    ELSE nodes[n]]
    /\ UNCHANGED <<edges, adjList, nextNodeId, overlay, history>>

Search(startNodeId, budget) ==
    /\ last' = Call("search", <<startNodeId, budget>>, "none",
                    SearchOp(nodes, edges, adjList, startNodeId, Seconds(budget)))
    /\ UNCHANGED <<store, overlay, history>>

\* --------------------------------------------------------- reconstructPath
\* the loop of reconstructPath: path.unshift(current), then the predecessor of
\* current, until current is the start or has no predecessor
RECURSIVE WalkBack(_, _, _, _)
WalkBack(previous, startNodeId, current, path) ==
    IF current = startNodeId THEN path
    ELSE LET before == PropertyOf(previous, current) IN
         IF before = Undefined THEN <<current>> \o path
         ELSE WalkBack(previous, startNodeId, before, <<current>> \o path)

\* reconstructPath(previous, startNodeId, endNodeId)
ReconstructPathOp(previous, startNodeId, endNodeId) ==
    <<startNodeId>> \o WalkBack(previous, startNodeId, endNodeId, <<>>)

\* reconstructPath on the result of the search just made
ReconstructPath(endNodeId) ==
    /\ last.op = "search"
    /\ last' = Call("reconstructPath", <<last.args[1], endNodeId>>, "none",
                    [distances |-> last.res.distances,
                     previous |-> last.res.previous,
                     reachable |-> last.res.reachable,
                     path |-> ReconstructPathOp(last.res.previous, last.args[1],
                                                endNodeId)])
    /\ UNCHANGED <<store, overlay, history>>

Next ==
    \/ AddNode(Place(nextNodeId), 0)
    \/ \E id \in Ids : RemoveNode(id)
    \/ \E a, b \in Ids, len \in Lengths : AddEdge(a, b, len)
    \/ \E a, b \in Ids : RemoveEdge(a, b)
    \/ \E o \in Ids, b \in Budgets : Search(o, b)
    \/ ImportSnapshot
    \/ RoundTrip

Spec == Init /\ [][Next]_vars

\* maxTimeSeconds is any number: the budgets, and one below the time 0 the
\* origin is extracted with
PathBudgets == Budgets \cup {-100}

\* searches and path reconstructions on a network of nodes and edges between
\* them
NextPath ==
    \/ AddNode(Place(nextNodeId), 0)
    \/ \E a, b \in DOMAIN nodes, len \in OverlayLengths : a # b /\ AddEdge(a, b, len)
    \/ \E a, b \in DOMAIN nodes : a # b /\ RemoveEdge(a, b)
    \/ \E o \in DOMAIN nodes, b \in PathBudgets : Search(o, b)
    \/ \E t \in Ids : ReconstructPath(t)

SpecPath == Init /\ [][NextPath]_vars

\* ========================================================= test-road overlay
\* addTestRoad is cut off once nextId exceeds MaxTestRoads
MaxTestRoads == 1

EarthRadius == 6371000
\* Math.PI as 22 / 7
PiNum == 22
PiDen == 7

Abs(x) == IF x < 0 THEN -x ELSE x

\* calculateDistance(p1, p2) in millimetres, for two points on the equator,
\* where the haversine formula gives R * |dLng| (dLng in radians); lng is in
\* micro-degrees, and R * PI / 180 the metres of one degree
CalculateDistance(p1, p2) ==
    (Abs(p2.lng - p1.lng) * ((EarthRadius * PiNum) \div (PiDen * 180))) \div 1000

\* walk speed 83.3 m/min as millimetres per minute
WalkSpeed == 83300

\* new TestRoad(id, startPoint, endPoint); walkTime = length / 83.3 minutes is
\* kept in units of 1/83300 min, in which it is the length in millimetres
TestRoad(id, startPoint, endPoint) ==
    [id |-> id, startPoint |-> startPoint, endPoint |-> endPoint,
     length |-> CalculateDistance(startPoint, endPoint),
     walkTime |-> CalculateDistance(startPoint, endPoint),
     status |-> "active"]

\* minutes in the units of walkTime
Minutes(m) == IF m = Infinity THEN Infinity ELSE m * WalkSpeed

Point(lng) == [lng |-> lng, lat |-> 0]
\* the places a test road may start or end at
Points == {Point(Place(k)) : k \in 1..MaxNodes}
\* budgets in minutes
MinuteBudgets == {2, Infinity}

\* -Infinity, and null
NegInfinity == -1000000000
Null == -4

\* nextId++ : -Infinity + 1 is -Infinity
Increment(n) == IF n = NegInfinity THEN NegInfinity ELSE n + 1

AddTestRoad(startPoint, endPoint) ==
    /\ nextId <= MaxTestRoads
    /\ nextId' = Increment(nextId)
    /\ testRoads' = MapSet(testRoads, nextId, TestRoad(nextId, startPoint, endPoint))
    /\ last' = Call("addTestRoad", <<nextId>>, "none", NoResult)
    /\ returnedRoadIds' = returnedRoadIds \cup {nextId}
    /\ UNCHANGED <<store, lastNodeId>>

RemoveTestRoad(id) ==
    /\ testRoads' = MapDelete(testRoads, id)
    /\ last' = Call("removeTestRoad", <<id>>, "none", NoResult)
    /\ UNCHANGED <<store, nextId, history>>

\* a clearing that empties the road network as well
ClearAllAndNetwork ==
    /\ testRoads' = Empty
    /\ nextId' = 1
    /\ nodes' = Empty /\ edges' = Empty /\ adjList' = Empty /\ nextNodeId' = 1
    /\ last' = Call("clearAll", <<>>, "none", NoResult)
    /\ UNCHANGED history

ClearAll ==
    /\ testRoads' = Empty
    /\ nextId' = 1
    /\ last' = Call("clearAll", <<>>, "none", NoResult)
    /\ UNCHANGED <<store, history>>

\* JSON.stringify of a number: -Infinity is written as null
JsonNumber(n) == IF n = NegInfinity THEN Null ELSE n

\* Number(v) as Math.max takes it: null counts as 0
ToNumber(v) == IF v = Null THEN 0 ELSE v

\* Math.max(...values): -Infinity of no values
RECURSIVE MathMaxOf(_)
MathMaxOf(values) ==
    IF values = <<>> THEN NegInfinity
    ELSE LET rest == MathMaxOf(Tail(values)) IN
         IF ToNumber(Head(values)) >= rest THEN ToNumber(Head(values)) ELSE rest

\* the numbers of a set in ascending order: the order of the testRoads Map
RECURSIVE AscendingNumbers(_)
AscendingNumbers(S) ==
    IF S = {} THEN <<>>
    ELSE LET m == CHOOSE x \in S : \A y \in S : x <= y
         IN <<m>> \o AscendingNumbers(S \ {m})

\* getActiveRoads()
GetActiveRoads(roads) ==
    SelectSeq([i \in DOMAIN AscendingNumbers(DOMAIN roads) |->
                  roads[AscendingNumbers(DOMAIN roads)[i]]],
              LAMBDA road : road.status = "active")

\* TestRoadManager.exportToJSON(): the roads as JSON.parse reads them back
ExportRoads(roads) ==
    [i \in DOMAIN AscendingNumbers(DOMAIN roads) |->
        [roads[AscendingNumbers(DOMAIN roads)[i]] EXCEPT !.id = JsonNumber(@)]]

\* roads.forEach(road => this.testRoads.set(road.id, new TestRoad(...)))
RECURSIVE ImportRoads(_, _)
ImportRoads(m, list) ==
    IF list = <<>> THEN m
    ELSE ImportRoads(MapSet(m, Head(list).id,
                            TestRoad(Head(list).id, Head(list).startPoint,
                                     Head(list).endPoint)),
                     Tail(list))

\* TestRoadManager.importFromJSON(exportToJSON()) on the same manager
RoundTripRoads ==
    /\ LET list == ExportRoads(testRoads) IN
        /\ testRoads' = ImportRoads(Empty, list)
        /\ nextId' = Increment(MathMaxOf([i \in DOMAIN list |-> list[i].id]))
    /\ last' = Call("importTestRoads", <<>>, "none", NoResult)
    /\ UNCHANGED <<store, history>>

\* isPointAccessible(point, originalResult): isPointInPolygon is not part of
\* the sources; a point counts as inside the original area when it is one of
\* the points the original result reached
IsPointAccessible(point, originalResult) == point \in originalResult.boundaryPoints

\* enhancedBoundaryPoints.push(point) on a Set: Set has no push
PushOnSet(st, point) == [st EXCEPT !.err = "TypeError"]

\* the body of testRoads.forEach for one road; st = [points, err]
EnhanceWith(st, road, originalResult, maxTime) ==
    LET startAccessible == IsPointAccessible(road.startPoint, originalResult)
        endAccessible == IsPointAccessible(road.endPoint, originalResult)
    IN
    IF startAccessible /\ ~endAccessible
    THEN IF JsLe(road.walkTime, maxTime) THEN PushOnSet(st, road.endPoint) ELSE st
    ELSE IF ~startAccessible /\ endAccessible
    THEN IF JsLe(road.walkTime, maxTime) THEN PushOnSet(st, road.startPoint) ELSE st
    ELSE st

RECURSIVE EnhanceAll(_, _, _, _)
EnhanceAll(st, roads, originalResult, maxTime) ==
    IF roads = <<>> \/ st.err # "none" THEN st
    ELSE EnhanceAll(EnhanceWith(st, Head(roads), originalResult, maxTime),
                    Tail(roads), originalResult, maxTime)

\* enhanceWithTestRoads(originalResult, testRoads, maxTimeMinutes)
EnhanceWithTestRoads(originalResult, roads, maxTime) ==
    LET st == EnhanceAll([points |-> originalResult.boundaryPoints, err |-> "none"],
                         roads, originalResult, maxTime)
    IN [boundaryPoints |-> st.points, err |-> st.err]

\* searchOriginal: its body is not part of the sources; the original result is
\* the search of the road network from the origin node, the budget in seconds
\* (maxTimeMinutes * 60), its boundary points the places of the reached nodes
SearchOriginal(originId, minutes) ==
    LET res == SearchOp(nodes, edges, adjList, originId,
                        Seconds(IF minutes = Infinity THEN Infinity ELSE minutes * 60))
    IN [boundaryPoints |-> {[lng |-> nodes[r.nodeId].lng, lat |-> nodes[r.nodeId].lat] :
                               r \in res.reachable},
        search |-> res]

\* AccessibilitySearcher.search: enhanced is null when no test road is active
ComputeEnhanced(originId, minutes) ==
    /\ originId \in DOMAIN nodes
    /\ LET original == SearchOriginal(originId, minutes)
           roads == GetActiveRoads(testRoads)
           enhanced == EnhanceWithTestRoads(original, roads, Minutes(minutes))
       IN last' = Call("computeEnhanced", <<originId, minutes>>,
                       IF roads = <<>> THEN "none" ELSE enhanced.err,
                       [original |-> original.boundaryPoints,
                        isNull |-> roads = <<>>,
                        enhanced |-> IF roads = <<>> THEN {} ELSE enhanced.boundaryPoints])
    /\ UNCHANGED <<store, overlay, history>>

\* a small road network under the overlay: its nodes, and edges between them
\* added from the lower id
NextOverlay ==
    \/ AddNode(Place(nextNodeId), 0)
    \/ \E a, b \in DOMAIN nodes, len \in OverlayLengths :
          IdNumber(a) < IdNumber(b) /\ AddEdge(a, b, len)
    \/ \E p, q \in Points : p # q /\ AddTestRoad(p, q)
    \/ \E id \in 1..MaxTestRoads : RemoveTestRoad(id)
    \/ ClearAll
    \/ RoundTripRoads
    \/ \E o \in Ids, m \in MinuteBudgets : ComputeEnhanced(o, m)

SpecOverlay == Init /\ [][NextOverlay]_vars

\* ======================================================= calculatePolygonArea
\* calculatePolygonArea is applied to at most MaxPoints points
MaxPoints == 4

\* the points of a grid: longitudes 0 and 1 degree, latitudes 0 and 60 degrees
GridPoints == {[lng |-> x, lat |-> y] : x \in {0, 1}, y \in {0, 60}}

\* 2 * Math.cos(lat * Math.PI / 180) for the latitudes of the grid
TwiceCos(lat) == IF lat = 60 THEN 1 ELSE 2

\* the loop: area += points[i].lng * points[j].lat;
\*           area -= points[j].lng * points[i].lat, with j = (i + 1) % n
RECURSIVE Shoelace(_, _)
Shoelace(points, i) ==
    IF i > Len(points) THEN 0
    ELSE LET j == (i % Len(points)) + 1
         IN points[i].lng * points[j].lat - points[j].lng * points[i].lat
              + Shoelace(points, i + 1)

\* calculatePolygonArea(points): reading points[0].lat of no points throws a
\* TypeError. The area is in units of 111000 * 111000 / 4 square metres:
\* Math.abs(area) / 2 * latInMeters * lngInMeters
CalculatePolygonAreaOp(points) ==
    IF points = <<>> THEN [err |-> "TypeError", area |-> Undefined]
    ELSE [err |-> "none",
          area |-> Abs(Shoelace(points, 1)) * TwiceCos(points[1].lat)]

CalculatePolygonArea(points) ==
    /\ last' = Call("calculatePolygonArea", <<points>>,
                    CalculatePolygonAreaOp(points).err,
                    [area |-> CalculatePolygonAreaOp(points).area])
    /\ UNCHANGED <<store, overlay, history>>

NextArea ==
    \E n \in 0..MaxPoints : \E points \in [1..n -> GridPoints] :
        CalculatePolygonArea(points)

SpecArea == Init /\ [][NextArea]_vars

\* ============================================================== PriorityQueue
\* a PriorityQueue holds at most MaxQueue entries
MaxQueue == 3

\* the priorities the entries are enqueued with
Priorities == {0, 100}

\* the calls on a PriorityQueue; last.res.items is this.items after the call
QueueOps == {"PriorityQueue", "enqueue", "dequeue"}

\* new PriorityQueue()
NewPriorityQueue ==
    /\ last' = Call("PriorityQueue", <<>>, "none", [items |-> <<>>])
    /\ UNCHANGED <<store, overlay, history>>

\* pq.enqueue(node, priority)
PqEnqueue(node, priority) ==
    /\ last.op \in QueueOps
    /\ Len(last.res.items) < MaxQueue
    /\ last' = Call("enqueue", <<node, priority>>, "none",
                    [items |-> Enqueue(last.res.items,
                                       [node |-> node, priority |-> priority])])
    /\ UNCHANGED <<store, overlay, history>>

\* pq.dequeue(), called as search calls it: while (!pq.isEmpty())
PqDequeue ==
    /\ last.op \in QueueOps
    /\ last.res.items # <<>>
    /\ last' = Call("dequeue", <<>>, "none",
                    [items |-> Tail(last.res.items), item |-> Head(last.res.items)])
    /\ UNCHANGED <<store, overlay, history>>

NextQueue ==
    \/ NewPriorityQueue
    \/ \E node \in Ids, priority \in Priorities : PqEnqueue(node, priority)
    \/ PqDequeue

SpecQueue == Init /\ [][NextQueue]_vars

\* ================================================================== claims
\* what the last call was
LastIs(op) == last.op = op
Origin == last.args[1]
Budget == last.args[2]
ReachedIds(res) == {r.nodeId : r \in res.reachable}

\* ---- reference: shortest cumulative edge time ----------------------------
\* the least time of a stored edge joining a and b in either direction
Weight(a, b) ==
    LET ts == {edges[k].time : k \in {<<a, b>>, <<b, a>>} \cap DOMAIN edges}
    IN IF ts = {} THEN Infinity ELSE CHOOSE t \in ts : \A u \in ts : t <= u

Least(S) == CHOOSE t \in S : \A u \in S : t <= u

\* Bellman-Ford over the nodes of the network, k rounds
RECURSIVE Shortest(_, _)
Shortest(d, k) ==
    IF k = 0 THEN d
    ELSE Shortest(
           [n \in DOMAIN d |->
               Least({d[n]} \cup {JsAdd(d[m], Weight(m, n)) : m \in DOMAIN d})],
           k - 1)

ShortestTimes(origin) ==
    Shortest([n \in DOMAIN nodes \cup {origin} |-> IF n = origin THEN 0 ELSE Infinity],
             Cardinality(DOMAIN nodes))

\* ---- C1 -------------------------------------------------------------------
NoReference(x) ==
    /\ \A n \in DOMAIN adjList : x \notin Range(adjList[n])
    /\ \A n \in DOMAIN nodes : x \notin nodes[n].connections
    /\ \A k \in DOMAIN edges : edges[k].from # x /\ edges[k].to # x

\* C1: after removeNode(x) of a node x of the network, no adjacency set and no
\* connections set contains x and no stored edge has x as its from or to.
C1_RemoveNodeLeavesNoReference ==
    [][\A x \in Ids :
         (x \in DOMAIN nodes /\ last'.op = "removeNode" /\ last'.args = <<x>>)
            => NoReference(x)']_vars

\* ---- C2 -------------------------------------------------------------------
\* C2: the reachable set of search(origin, budget), origin a node of the
\* network and budget >= 0, contains the origin with distance 0.
C2_OriginReachedAtZero ==
    (LastIs("search") /\ Origin \in DOMAIN nodes /\ Budget >= 0)
        => [nodeId |-> Origin, distance |-> 0] \in last.res.reachable

\* ---- C3 -------------------------------------------------------------------
\* C3: the reachable set of search is exactly the set of nodes whose shortest
\* cumulative edge time from the origin is finite and <= budget, each reported
\* with that time (stated for the searches in which some node other than the
\* origin is within the budget).
C3_ReachableIsShortestWithinBudget ==
    (/\ LastIs("search") /\ Origin \in DOMAIN nodes
     /\ \E m \in DOMAIN nodes \ {Origin} :
           /\ ShortestTimes(Origin)[m] # Infinity
           /\ ShortestTimes(Origin)[m] <= Seconds(Budget))
        => last.res.reachable =
             {[nodeId |-> n, distance |-> ShortestTimes(Origin)[n]] :
                 n \in {m \in DOMAIN nodes :
                          /\ ShortestTimes(Origin)[m] # Infinity
                          /\ ShortestTimes(Origin)[m] <= Seconds(Budget)}}

\* ---- C4 -------------------------------------------------------------------
\* C4: every node in the reachable set of search has a reported distance that
\* is finite and <= budget.
C4_ReachedWithinBudget ==
    (LastIs("search") /\ Origin \in DOMAIN nodes)
        => \A r \in last.res.reachable :
              r.distance # Infinity /\ r.distance <= Seconds(Budget)

\* ---- C5 -------------------------------------------------------------------
\* the nodes search reaches from the last origin on the present network
ReachedWith(budget) ==
    ReachedIds(SearchOp(nodes, edges, adjList, Origin, Seconds(budget)))

\* C5: for the same network and origin, a budget at least as large reaches a
\* superset of the nodes.
C5_BudgetMonotone ==
    LastIs("search")
        => \A b2 \in Budgets :
              b2 >= Budget => ReachedIds(last.res) \subseteq ReachedWith(b2)

\* a search whose result a larger budget strictly extends
C5_Witness ==
    /\ LastIs("search")
    /\ Origin \in DOMAIN nodes
    /\ \E b2 \in Budgets :
          /\ b2 > Budget
          /\ ReachedIds(last.res) # ReachedWith(b2)
          /\ ReachedIds(last.res) \subseteq ReachedWith(b2)

\* ---- C6 -------------------------------------------------------------------
\* C6: for the same network, origin and budget and any set of active test
\* roads, the enhanced computation returns a result whose points are a superset
\* of the points of the base search (an enhanced result of null, returned when
\* no test road is active, stands for the base result).
C6_OverlayMonotone ==
    LastIs("computeEnhanced")
        => /\ last.err = "none"
           /\ last.res.isNull \/ last.res.original \subseteq last.res.enhanced

\* ---- C7 -------------------------------------------------------------------
\* the time of a base edge of this length in the units of walkTime
WalkUnits(length) == (length * 1000 * (WalkSpeed \div 10)) \div TimeUnit

\* the least time of a base edge or an active test road joining the places p, q
FusedWeight(p, q) ==
    LET base == {WalkUnits(edges[k].length) :
                    k \in {e \in DOMAIN edges :
                             /\ e[1] \in DOMAIN nodes /\ e[2] \in DOMAIN nodes
                             /\ {Point(nodes[e[1]].lng), Point(nodes[e[2]].lng)} = {p, q}}}
        road == {testRoads[i].walkTime :
                    i \in {j \in DOMAIN testRoads :
                             /\ testRoads[j].status = "active"
                             /\ {testRoads[j].startPoint, testRoads[j].endPoint} = {p, q}}}
    IN IF base \cup road = {} THEN Infinity ELSE Least(base \cup road)

RECURSIVE FusedShortest(_, _)
FusedShortest(d, k) ==
    IF k = 0 THEN d
    ELSE FusedShortest(
           [p \in DOMAIN d |->
               Least({d[p]} \cup {JsAdd(d[q], FusedWeight(q, p)) : q \in DOMAIN d})],
           k - 1)

\* shortest times over the fused graph from the place of the origin
FusedTimes(origin) ==
    FusedShortest([p \in Points |-> IF p = Point(nodes[origin].lng) THEN 0 ELSE Infinity],
                  Cardinality(Points))

\* C7: with a test road active, the enhanced computation succeeds and reports
\* a node other than the origin exactly when its cheapest path over the fused
\* graph (base edges plus the active test roads) is finite and within the
\* budget.
C7_EnhancedIsFusedSearch ==
    (LastIs("computeEnhanced") /\ ~last.res.isNull)
        => /\ last.err = "none"
           /\ \A n \in DOMAIN nodes \ {Origin} :
                Point(nodes[n].lng) \in last.res.enhanced
                   <=> /\ FusedTimes(Origin)[Point(nodes[n].lng)] # Infinity
                       /\ FusedTimes(Origin)[Point(nodes[n].lng)] <= Minutes(Budget)

\* ---- C8 -------------------------------------------------------------------
\* C8: importFromJSON(exportToJSON()) succeeds and leaves the same node ids,
\* coordinates and boundary flags and the same edges, and the next id addNode
\* generates is greater than every imported id.
C8_RoundTrip ==
    [][(last'.op = "importFromJSON" /\ last'.args = <<"exported">>)
          => /\ last'.err = "none"
             /\ DOMAIN nodes' = DOMAIN nodes
             /\ \A n \in DOMAIN nodes :
                   /\ nodes'[n].lng = nodes[n].lng
                   /\ nodes'[n].lat = nodes[n].lat
                   /\ nodes'[n].isBoundary = nodes[n].isBoundary
             /\ edges' = edges
             /\ \A n \in DOMAIN nodes' : nextNodeId' > IdNumber(n)]_vars

\* ---- C9 -------------------------------------------------------------------
\* the snapshots that are malformed: an edge to a node that is not listed, the
\* edges field missing, a coordinate that is not a number
Malformed == {"danglingEdge", "missingEdges", "nonNumericCoordinate"}

\* C9: importing a malformed snapshot fails (whatever the name of the error)
\* and leaves nodes, edges, adjacency and the id counter as they were.
C9_MalformedImportRejected ==
    [][(last'.op = "importFromJSON" /\ last'.args[1] \in Malformed)
          => last'.err # "none" /\ store' = store]_vars

\* ---- C10 ------------------------------------------------------------------
\* C10: addEdge(a, b, length), a # b, with a or b not a node of the network fails
\* (whatever the name of the error) and adds no edge entry, no adjacency entry
\* and no connections entry.
C10_AddEdgeMissingEndpointRejected ==
    [][(/\ last'.op = "addEdge"
        /\ last'.args[1] # last'.args[2]
        /\ (last'.args[1] \notin DOMAIN nodes \/ last'.args[2] \notin DOMAIN nodes))
          => last'.err # "none" /\ store' = store]_vars

\* ---- C11 ------------------------------------------------------------------
\* no stored edge has equal endpoints and no node lists itself as a neighbour
NoSelfLoop ==
    /\ \A k \in DOMAIN edges : edges[k].from # edges[k].to
    /\ \A n \in DOMAIN nodes : n \notin nodes[n].connections
    /\ \A n \in DOMAIN adjList : n \notin Range(adjList[n])

\* C11: addEdge(a, a, length), a a node of the network, fails (whatever the
\* name of the error), changes nothing, and leaves a store in which no edge has
\* equal endpoints and no node lists itself as a neighbour.
C11_SelfLoopRejected ==
    [][(/\ last'.op = "addEdge"
        /\ last'.args[1] = last'.args[2]
        /\ last'.args[1] \in DOMAIN nodes)
          => last'.err # "none" /\ store' = store /\ NoSelfLoop']_vars

\* ---- C12 ------------------------------------------------------------------
\* the keys of the edges stored between two nodes of the network
KeysBetween(a, b) == {<<a, b>>, <<b, a>>} \cap DOMAIN edges

\* C12: between two nodes of the network the store holds at most one edge, and
\* the edge search uses from a to b has the time of the one it uses from b to a.
C12_OneEdgePerPair ==
    \A a, b \in DOMAIN nodes :
        a # b => /\ Cardinality(KeysBetween(a, b)) <= 1
                 /\ FindEdge(edges, a, b).time = FindEdge(edges, b, a).time

\* ---- C13 ------------------------------------------------------------------
\* every stored edge joins two nodes of the network
EndpointsPresent ==
    \A k \in DOMAIN edges : edges[k].from \in DOMAIN nodes /\ edges[k].to \in DOMAIN nodes

\* C13: (in a store whose edges all join nodes of the network) an edge between
\* a and b is stored iff b is in a's connections and a is in b's connections,
\* and the connections set of every node agrees with its adjList set.
C13_EdgesConnectionsAdjacencyAgree ==
    EndpointsPresent
        => /\ \A a, b \in DOMAIN nodes :
                 (KeysBetween(a, b) # {})
                    <=> (b \in nodes[a].connections /\ a \in nodes[b].connections)
           /\ \A n \in DOMAIN nodes :
                 n \in DOMAIN adjList /\ Range(adjList[n]) = nodes[n].connections

\* ---- C14 ------------------------------------------------------------------
\* C14: the id addNode returns is greater than the id it returned before (so
\* the ids it returns increase strictly and none is returned twice) and is not
\* an id of a node of the network.
C14_NodeIdsNeverReused ==
    [][last'.op = "addNode"
          => /\ last'.args[1] \notin DOMAIN nodes
             /\ IdNumber(last'.args[1]) > lastNodeId]_vars

\* ---- C15 ------------------------------------------------------------------
\* C15: search from an origin that is not a node of the network fails
\* (whatever the name of the error) and produces no distances and no reachable
\* set.
C15_OriginNotFound ==
    (LastIs("search") /\ Origin \notin DOMAIN nodes)
        => last.err # "none" /\ last.res = NoResult

\* ---- C16 ------------------------------------------------------------------
\* C16: reconstructPath for a target node to which no path leads from the
\* origin fails (whatever the name of the error) rather than returning a path.
C16_UnreachableReported ==
    (/\ LastIs("reconstructPath")
     /\ Origin \in DOMAIN nodes
     /\ last.args[2] \in DOMAIN nodes
     /\ ShortestTimes(Origin)[last.args[2]] = Infinity)
        => last.err # "none"

\* ---- C17 ------------------------------------------------------------------
\* removing twice gives the store that removing once gives
RemovalIdempotent ==
    /\ \A x \in Ids :
          RemoveNodeOp(RemoveNodeOp(StoreRec, x), x) = RemoveNodeOp(StoreRec, x)
    /\ \A a, b \in Ids :
          RemoveEdgeOp(RemoveEdgeOp(StoreRec, a, b), a, b) = RemoveEdgeOp(StoreRec, a, b)

\* C17: removeNode of an id that is not a node of the network, and removeEdge
\* of a pair with no stored edge in either direction, do not fail and leave
\* nodes (with their connections), edges, adjList and the id counter as they
\* were; and either removal applied twice gives the state it gives applied once.
C17_RemovalOfAbsentIsNoOp ==
    [][/\ (last'.op = "removeNode" /\ last'.args[1] \notin DOMAIN nodes)
            => last'.err = "none" /\ store' = store
       /\ (last'.op = "removeEdge"
              /\ {<<last'.args[1], last'.args[2]>>, <<last'.args[2], last'.args[1]>>}
                    \cap DOMAIN edges = {})
            => last'.err = "none" /\ store' = store
       /\ RemovalIdempotent]_vars

\* ---- C18 ------------------------------------------------------------------
\* in the store s nothing joins a and b: no edge in either direction, and
\* neither lists the other in connections or adjList
Unjoined(s, a, b) ==
    /\ <<a, b>> \notin DOMAIN s.edges /\ <<b, a>> \notin DOMAIN s.edges
    /\ a \in DOMAIN s.nodes => b \notin s.nodes[a].connections
    /\ b \in DOMAIN s.nodes => a \notin s.nodes[b].connections
    /\ a \in DOMAIN s.adjList => b \notin Range(s.adjList[a])
    /\ b \in DOMAIN s.adjList => a \notin Range(s.adjList[b])

\* C18: whenever an edge is stored from a to b, removeEdge(b, a) as well as
\* removeEdge(a, b) leaves no stored edge between a and b and neither node
\* listing the other in connections or adjList.
C18_RemoveEdgeSymmetric ==
    \A k \in DOMAIN edges :
        /\ Unjoined(RemoveEdgeOp(StoreRec, k[2], k[1]), k[1], k[2])
        /\ Unjoined(RemoveEdgeOp(StoreRec, k[1], k[2]), k[1], k[2])

\* addEdge(a, b, L) between two nodes has just stored the edge a-b and only
\* that direction, and both nodes list each other
C18_Witness ==
    /\ LastIs("addEdge") /\ last.err = "none"
    /\ last.args[1] # last.args[2]
    /\ <<last.args[1], last.args[2]>> \in DOMAIN edges
    /\ <<last.args[2], last.args[1]>> \notin DOMAIN edges
    /\ last.args[2] \in nodes[last.args[1]].connections
    /\ last.args[1] \in Range(adjList[last.args[2]])
    /\ RemoveEdgeOp(StoreRec, last.args[2], last.args[1]) # StoreRec

\* ---- C19 ------------------------------------------------------------------
\* the active listing holds exactly the records whose status is 'active'
ActiveListingExact ==
    Range(GetActiveRoads(testRoads))
        = {testRoads[i] : i \in {j \in DOMAIN testRoads : testRoads[j].status = "active"}}

\* C19: removeTestRoad(id) of a road of the manager keeps its record, with the
\* status 'deleted', and the active listing returns exactly the records whose
\* status is 'active'.
C19_SoftDelete ==
    [][(last'.op = "removeTestRoad" /\ last'.args[1] \in DOMAIN testRoads)
          => /\ last'.args[1] \in DOMAIN testRoads'
             /\ testRoads'[last'.args[1]].status = "deleted"
             /\ ActiveListingExact']_vars

\* ---- C20 ------------------------------------------------------------------
\* C20: addTestRoad never returns an id that an earlier addTestRoad returned.
C20_RoadIdsNeverReused ==
    [][last'.op = "addTestRoad" => last'.args[1] \notin returnedRoadIds]_vars

\* ---- C21 ------------------------------------------------------------------
OverlayOps == {"addTestRoad", "removeTestRoad", "clearAll", "importTestRoads",
               "computeEnhanced"}
NetworkOps == {"addNode", "addEdge", "removeNode", "removeEdge", "importFromJSON"}

\* C21: the operations of the overlay and the enhanced computation leave
\* nodes, edges, adjList and the node-id counter as they were, and the edits of
\* the network leave the test roads as they were.
C21_OverlayAndNetworkSeparate ==
    [][/\ last'.op \in OverlayOps => store' = store
       /\ last'.op \in NetworkOps => testRoads' = testRoads /\ nextId' = nextId]_vars

\* an overlay operation has acted on a manager with a test road, over a network
\* with nodes and an edge
C21_Witness ==
    /\ last.op \in {"removeTestRoad", "clearAll"}
    /\ returnedRoadIds # {}
    /\ testRoads = Empty
    /\ edges # Empty
    /\ Cardinality(DOMAIN nodes) >= 2

Reorderings(points) ==
    {[i \in DOMAIN points |-> points[f[i]]] :
        f \in {g \in [DOMAIN points -> DOMAIN points] :
                  \A i, j \in DOMAIN points : g[i] = g[j] => i = j}}

\* C23: the area computed for three or more different points is the area
\* computed for the same points in any other order.
C23_AreaOrderIndependent ==
    (/\ LastIs("calculatePolygonArea")
     /\ Len(last.args[1]) >= 3
     /\ Cardinality(Range(last.args[1])) = Len(last.args[1]))
        => \A q \in Reorderings(last.args[1]) :
              CalculatePolygonAreaOp(q).area = last.res.area

\* ---- C24 ------------------------------------------------------------------
\* C24: for 0, 1 or 2 points the area computation raises no error and
\* returns 0.
C24_DegenerateAreaIsZero ==
    (LastIs("calculatePolygonArea") /\ Len(last.args[1]) <= 2)
        => last.err = "none" /\ last.res.area = 0

\* ---- C25 ------------------------------------------------------------------
\* C25: an entry is extracted before every entry of the same priority that
\* has a greater node identifier: among the entries left in the queue, those
\* with the priority of the extracted entry have no smaller node identifier.
C25_TiesByAscendingNodeId ==
    LastIs("dequeue")
        => \A i \in DOMAIN last.res.items :
              last.res.items[i].priority = last.res.item.priority
                  => IdNumber(last.res.item.node) <= IdNumber(last.res.items[i].node)

RECURSIVE PathTime(_)
PathTime(path) ==
    IF Len(path) < 2 THEN 0
    ELSE JsAdd(FindEdge(edges, path[1], path[2]).time, PathTime(Tail(path)))

\* C27: the path reconstructed for a target of the reachable set starts at
\* the origin, ends at the target, joins every two consecutive nodes by a
\* stored edge, and its edge times add up to the distance reported for the
\* target.
C27_PathMatchesDistance ==
    (LastIs("reconstructPath") /\ last.args[2] \in ReachedIds(last.res))
        => LET path == last.res.path IN
           /\ Head(path) = last.args[1]
           /\ path[Len(path)] = last.args[2]
           /\ \A i \in 1..(Len(path) - 1) : KeysBetween(path[i], path[i + 1]) # {}
           /\ PathTime(path) = DistGet(last.res.distances, last.args[2])

====
